---- MODULE Spec2Model ----
(***************************************************************************)
(* The thruster control-allocation plugin (src/src/lib.rs) as a state      *)
(* machine: the Steering component of every controlled body, the Engine    *)
(* components of the bodies and their attached parts, the two systems of    *)
(* the "update_steering" stage (invalidate_caches, steering) and the host   *)
(* mutations that happen before that stage in every frame.                  *)
(*                                                                          *)
(* Number formats.  Positions, centers of mass and desired force/torque    *)
(* are in tenths (10 stands for 1.0); thrust directions and max_thrust are  *)
(* integers; an activation is a numerator over ActSteps (ActSteps stands    *)
(* for 1.0).                                                                *)
(***************************************************************************)
EXTENDS Integers, Sequences, FiniteSets, TLC

VARIABLES bodies, engine, changed, steering, world_com, out, solve_log,
          currently_firing, event_keys, events, tick_log, pc, frame, ops, calc

(***************************************************************************)
(* bodies            the entities that carry a Steering and a rigid body    *)
(* engine            the Engine component (a Vec<SubEngine>) of each entity *)
(* changed           the entities the Changed<Engine> filter matches at the *)
(*                   next run of invalidate_caches                          *)
(* steering          the Steering component of each body                    *)
(* world_com         body.world_com minus the body's translation: the       *)
(*                   center of mass steering computes at lib.rs:110         *)
(* out               what the last run of steering did for each body        *)
(* solve_log         every run of the or_insert_with closure so far         *)
(* currently_firing, event_keys, events                                     *)
(*                   the firing-state tracking of the specification         *)
(* tick_log          per body, for every tick so far: whether the body had  *)
(*                   a desire, the vector used, the events sent and the     *)
(*                   center of mass at the tick                             *)
(* pc, frame, ops    the stage position, the frames run, the host           *)
(*                   mutations left                                         *)
(* calc              the call of a function of optimizer.rs, its arguments  *)
(*                   and its result                                         *)
(* Every controlled body has its rigid body in the RigidBodySet, so         *)
(* body_set.get_mut never fails.                                            *)
(***************************************************************************)
vars == <<bodies, engine, changed, steering, world_com, out, solve_log,
          currently_firing, event_keys, events, tick_log, pc, frame, ops, calc>>

(***************************************************************************)
(* Bounds of the model.                                                     *)
(***************************************************************************)
\* activation levels the LP search distinguishes: 0, 1/ActSteps, ..., 1
ActSteps == 3
\* frames (runs of the update_steering stage) in one behaviour
MaxFrames == 3
\* mounts one ship (a body and its parts) carries at most
MaxEngines == 2
\* host mutations (desire, center of mass, mounts) in one behaviour
MaxOps == 3
\* host mutations in one behaviour of the world with two controlled bodies
MaxFleetOps == 3
\* frames in one behaviour of the world with two controlled bodies
MaxFleetFrames == 2
\* engines in one slice passed to the functions of optimizer.rs
MaxOptEngines == 2

(***************************************************************************)
(* Program constants.                                                       *)
(***************************************************************************)
\* ThrustScale::default()
ThrustScaleDefault == 8000
\* the drift threshold 0.5 on a squared distance, in squared tenths
ComThresholdSq == 50
\* CACHE_COARSENESS = PI / 10, as PiNum / (10 * PiDen)
PiNum == 314159
PiDen == 100000

(***************************************************************************)
(* The entities of the world: controlled bodies carry a Steering, parts    *)
(* are children of a body.  Entity identities are ordered integers.         *)
(***************************************************************************)
Bodies == {2, 3}
Parts == {1, 4}
Entities == Bodies \cup Parts

\* Option<&Children> of a body, in the order the host lists them
Children(b) == IF b = 2 THEN << <<4, 1>> >> ELSE << >>
\* the Parent component of a part
Parent(p) == 2

\* the (local) Transform of an entity: translation in tenths, rotation in
\* quarter turns
Translation(e) ==
    CASE e = 1 -> <<-10, 0>>
      [] e = 2 -> <<20, 10>>
      [] e = 3 -> <<0, 0>>
      [] e = 4 -> <<10, 0>>
Rotation(e) ==
    CASE e = 1 -> 0
      [] e = 2 -> 1
      [] e = 3 -> 0
      [] e = 4 -> 2

(***************************************************************************)
(* Vec2 arithmetic.                                                         *)
(***************************************************************************)
Abs(x) == IF x < 0 THEN -x ELSE x
VAdd(a, b) == <<a[1] + b[1], a[2] + b[2]>>
VSub(a, b) == <<a[1] - b[1], a[2] - b[2]>>
VScale(a, k) == <<a[1] * k, a[2] * k>>
\* z of the 3D cross product of two vectors extended with 0
CrossZ(a, b) == a[1] * b[2] - a[2] * b[1]
DistanceSquared(a, b) == (a[1] - b[1]) * (a[1] - b[1]) + (a[2] - b[2]) * (a[2] - b[2])
\* Quat::mul_vec3 for a rotation about z by q quarter turns
RECURSIVE RotateVec(_, _)
RotateVec(q, v) == IF q = 0 THEN v ELSE RotateVec(q - 1, <<-v[2], v[1]>>)

(***************************************************************************)
(* Option values: None is the empty sequence, Some(x) the one-element one.  *)
(***************************************************************************)
None == << >>
Some(x) == <<x>>

(***************************************************************************)
(* SubEngine values the host mounts.                                        *)
(***************************************************************************)
SubEngine(tv, mt) == [thrust_vector |-> tv, max_thrust |-> mt]
SubEngines == { SubEngine(<<0, 1>>, 1), SubEngine(<<1, 0>>, 2), SubEngine(<<0, 0>>, 1) }

\* desired (force.x, force.y, torque) the caller sets, in tenths
Desires == { <<0, 2, 0>>, <<0, 3, 0>>, <<10, 0, -5>> }
\* centers of mass relative to the body, in tenths
ComVals == { <<0, 0>>, <<5, 5>>, <<10, 10>> }

\* Steering::default()
SteeringDefault ==
    [desired_force |-> <<0, 0>>, desired_torque |-> 0, last_seen_com |-> <<0, 0>>,
     firings_cache |-> {}, engines |-> None]

\* what the last run of steering did for one body: whether the body had a
\* desire (ran), which branches were taken, the request, the key, the solver
\* call if any, the activation vector used and the impulses applied
OutIdle ==
    [ran |-> FALSE, resolved |-> FALSE, com_cleared |-> FALSE, hit |-> FALSE,
     request |-> None, key |-> None, solved |-> None, firing |-> None,
     impulses |-> << >>]

(***************************************************************************)
(* Geometry resolution (steering, the branch taken when engines is None).   *)
(***************************************************************************)
\* entities.sort(): insertion of one entity into a sorted sequence
RECURSIVE SortedInsert(_, _)
SortedInsert(s, e) ==
    IF s = << >> THEN <<e>>
    ELSE IF e <= Head(s) THEN <<e>> \o s
    ELSE <<Head(s)>> \o SortedInsert(Tail(s), e)

RECURSIVE SortEntities(_)
SortEntities(s) ==
    IF s = << >> THEN << >> ELSE SortedInsert(SortEntities(Tail(s)), Head(s))

\* vec![parent] extended with the children, if any
OwnerList(b) == IF Children(b) = None THEN <<b>> ELSE <<b>> \o Children(b)[1]

\* the owners in the order they were collected, without entities.sort()
OwnerOrder_Unsorted(b) == OwnerList(b)

\* the order in which the owners are flattened
OwnerOrder(b) == SortEntities(OwnerList(b))

\* the tuples one owner contributes: (position, thrust_vector, max_thrust)
OwnerEngines(parent, e, eng) ==
    LET translation == IF e = parent THEN <<0, 0>> ELSE Translation(e)
        rotation == IF e = parent THEN 0 ELSE Rotation(e)
    IN  [i \in 1..Len(eng[e]) |->
            <<translation, RotateVec(rotation, eng[e][i].thrust_vector),
              eng[e][i].max_thrust>>]

RECURSIVE FlattenOwners(_, _, _)
FlattenOwners(parent, owners, eng) ==
    IF owners = << >> THEN << >>
    ELSE OwnerEngines(parent, Head(owners), eng) \o FlattenOwners(parent, Tail(owners), eng)

ResolveEngines(b, eng) == FlattenOwners(b, OwnerOrder(b), eng)

(***************************************************************************)
(* The quantized cache key.                                                 *)
(***************************************************************************)
\* (x / CACHE_COARSENESS) as i32 for x in tenths: truncation toward zero
QuantComponent(x) ==
    IF x >= 0 THEN (x * PiDen) \div PiNum ELSE -(((-x) * PiDen) \div PiNum)

QuantKey(force, torque) ==
    <<QuantComponent(force[1]), QuantComponent(force[2]), QuantComponent(torque)>>

(***************************************************************************)
(* The linear program built inside or_insert_with.  minilp's simplex is     *)
(* modelled by its specification: it returns a minimizer of the objective   *)
(* over the box of the activation variables, here searched over the         *)
(* activation levels 0..ActSteps; the free variables u, v, w take the       *)
(* absolute residuals at the optimum.                                       *)
(***************************************************************************)
RECURSIVE SeqSum(_)
SeqSum(s) == IF s = << >> THEN 0 ELSE Head(s) + SeqSum(Tail(s))

\* the variable bounds (0.0, 2.0)
ActivationLevels_UpToTwo == 0..(2 * ActSteps)

\* problem.add_var(fuel_consumption_weight, (0.0, 1.0)): the levels inside the bounds
ActivationLevels == 0..ActSteps

\* engines.iter().map(|e| e.2).sum()
TotalThrust(engines) == SeqSum([i \in 1..Len(engines) |-> engines[i][3]])

\* the torque coefficient of every engine, in tenths (torque_weight = 1.0)
Torques(engines, com) ==
    [i \in 1..Len(engines) |-> CrossZ(VSub(engines[i][1], com), engines[i][2])]

\* total_torque: the sum of the absolute torque coefficients
TotalTorque(engines, com) ==
    LET t == Torques(engines, com) IN SeqSum([i \in 1..Len(engines) |-> Abs(t[i])])

\* the coefficients of the problem: per engine the torque and force
\* coefficients of its activation variable, and the three targets; scaled by
\* 100 (and the targets by ActSteps, the denominator of an activation)
Problem(engines, com, force, torque) ==
    LET n == Len(engines)
        t == Torques(engines, com)
        desire == VScale(force, TotalThrust(engines))
        desired_torque == torque * TotalTorque(engines, com)
    IN  [torques |-> [i \in 1..n |-> 10 * t[i]],
         forces_x |-> [i \in 1..n |-> 100 * engines[i][2][1]],
         forces_y |-> [i \in 1..n |-> 100 * engines[i][2][2]],
         desired_torque |-> desired_torque * ActSteps,
         desire_x |-> 10 * desire[1] * ActSteps,
         desire_y |-> 10 * desire[2] * ActSteps]

\* sum of coefficient times activation over the engines
RECURSIVE Dot(_, _)
Dot(c, a) == IF c = << >> THEN 0 ELSE Head(c) * Head(a) + Dot(Tail(c), Tail(a))

\* the objective with fuel_consumption_weight = 0.0
Objective_NoFuel(problem, a) ==
    100 * (Abs(Dot(problem.torques, a) - problem.desired_torque)
           + Abs(Dot(problem.forces_x, a) - problem.desire_x)
           + Abs(Dot(problem.forces_y, a) - problem.desire_y))

\* the objective u + v + w + 0.0001 * sum(a) at the activations a, with u, v, w
\* at their least feasible values (the absolute residuals); scaled by
\* 10000 * ActSteps
Objective(problem, a) ==
    100 * (Abs(Dot(problem.torques, a) - problem.desired_torque)
           + Abs(Dot(problem.forces_x, a) - problem.desire_x)
           + Abs(Dot(problem.forces_y, a) - problem.desire_y))
    + SeqSum(a)

\* the least element of a non-empty set of numbers
Least(vals) == CHOOSE v \in vals : \A w \in vals : v <= w

\* the activation vectors at which the objective of the problem is least
Minimizers(problem, cands) ==
    UNION { { a \in cands : Objective(p, a) = m } :
              p \in { problem },
              m \in { Least({ Objective(q, a) : q \in { problem }, a \in cands }) } }

\* problem.solve().unwrap(), then the activations read back: every optimum
Solve(engines, com, force, torque) ==
    Minimizers(Problem(engines, com, force, torque),
               [1..Len(engines) -> ActivationLevels])

(***************************************************************************)
(* Force application (steering, the loop after the cache lookup).           *)
(***************************************************************************)
\* the impulse one firing engine receives and the point it is applied at
ImpulseOf(b, eng, scale) ==
    [vector |-> VScale(VScale(RotateVec(Rotation(b), eng[2]), eng[3]), scale),
     point |-> VAdd(RotateVec(Rotation(b), eng[1]), Translation(b))]

\* whether an engine with this activation gets an impulse
IsFiring(f) == f > 0

Min(a, b) == IF a < b THEN a ELSE b

\* engines.iter().zip(firing): one record per engine that fires, in order
RECURSIVE ApplyImpulses(_, _, _, _)
ApplyImpulses(b, engines, firing, i) ==
    IF i > Min(Len(engines), Len(firing)) THEN << >>
    ELSE (IF IsFiring(firing[i])
          THEN << [index |-> i] @@ ImpulseOf(b, engines[i], ThrustScaleDefault) >>
          ELSE << >>) \o ApplyImpulses(b, engines, firing, i + 1)

(***************************************************************************)
(* One body's pass through the loop of the steering system.                 *)
(***************************************************************************)
\* the fast path left out: every body is taken through the loop body
HasDesire_Always(st) == TRUE

\* steering.desired_force != Vec2::splat(0.0) || steering.desired_torque != 0.0
HasDesire(st) == st.desired_force # <<0, 0>> \/ st.desired_torque # 0

\* the drift test with >= in place of >
ComDrifted_AtThreshold(last_seen, com) == DistanceSquared(last_seen, com) >= ComThresholdSq

\* the drift test left out
ComDrifted_Never(last_seen, com) == FALSE

\* last_seen_com.distance_squared(center_of_mass) > 0.5
ComDrifted(last_seen, com) == DistanceSquared(last_seen, com) > ComThresholdSq

\* the recorded center of mass following every tick
LastSeenAfter_Follow(st, com) == com

\* last_seen_com after the drift handling
LastSeenAfter(st, com) == IF ComDrifted(st.last_seen_com, com) THEN com ELSE st.last_seen_com

\* the cache entry stored under a key, if any
CacheEntries(cache, key) == { e \in cache : e.key = key }

\* the lookup as insert() would do it: the solver runs on every request
CacheLookup_AlwaysSolve(cache, key, engines, com, force, torque) ==
    Solve(engines, com, force, torque)

\* firings_cache.entry(key).or_insert_with(solve): the vectors the lookup can
\* give; a stored vector is the only choice
CacheLookup(cache, key, engines, com, force, torque) ==
    IF CacheEntries(cache, key) # {}
    THEN { e.firing : e \in CacheEntries(cache, key) }
    ELSE Solve(engines, com, force, torque)

\* the cache after the lookup returned firing
CacheAfter(cache, key, firing) ==
    IF CacheEntries(cache, key) # {} THEN cache
    ELSE cache \cup { [key |-> key, firing |-> firing] }

\* the resolver run on every tick of a body with a desire
NeedsResolve_Always(st) == TRUE

\* steering.engines.is_none()
NeedsResolve(st) == st.engines = None

\* the outcomes of the loop body for body b: the new Steering and what was done
SteerBody(b, st, com, eng) ==
    IF ~HasDesire(st) THEN { [st |-> st, out |-> OutIdle] }
    ELSE
      LET resolve == NeedsResolve(st)
          engines == IF resolve THEN ResolveEngines(b, eng) ELSE st.engines[1]
          drift == ComDrifted(st.last_seen_com, com)
          last_seen == LastSeenAfter(st, com)
          cache == IF drift THEN {} ELSE st.firings_cache
          key == QuantKey(st.desired_force, st.desired_torque)
          hit == CacheEntries(cache, key) # {}
      IN  { [st |-> [st EXCEPT !.engines = Some(engines),
                               !.last_seen_com = last_seen,
                               !.firings_cache = CacheAfter(cache, key, firing)],
             out |-> [ran |-> TRUE, resolved |-> resolve, com_cleared |-> drift,
                      hit |-> hit,
                      request |-> Some([force |-> st.desired_force,
                                        torque |-> st.desired_torque, com |-> com]),
                      key |-> Some(key),
                      solved |-> IF hit THEN None
                                 ELSE Some([engines |-> engines, com |-> com,
                                            force |-> st.desired_force,
                                            torque |-> st.desired_torque]),
                      firing |-> Some(firing),
                      impulses |-> ApplyImpulses(b, engines, firing, 1)]]
          : firing \in CacheLookup(cache, key, engines, com, st.desired_force,
                                   st.desired_torque) }

(***************************************************************************)
(* Firing-state transitions.  The code that emits EngineEvent is not among  *)
(* the sources (only its consumer, maintain_engine_indicators, is); this    *)
(* part follows the specification, section 4.5 step 5.                      *)
(***************************************************************************)
\* the identity of every resolved thruster: (owner entity, index in its Engine)
RECURSIVE IdentityList(_, _)
IdentityList(owners, eng) ==
    IF owners = << >> THEN << >>
    ELSE [i \in 1..Len(eng[Head(owners)]) |-> <<Head(owners), i>>]
         \o IdentityList(Tail(owners), eng)

\* the identities with activation > 0 on this tick (none on a zero tick)
ActiveSet(keys, o) ==
    IF o.firing = None THEN {}
    ELSE { keys[i] : i \in { j \in 1..Min(Len(keys), Len(o.firing[1])) : o.firing[1][j] > 0 } }

\* the activation of an identity on this tick
ActivationOf(keys, o, id) ==
    o.firing[1][CHOOSE i \in 1..Len(keys) : keys[i] = id]

\* a set of identities as a sequence in ascending (entity, index) order
RECURSIVE IdentitySeq(_)
IdentitySeq(ids) ==
    IF ids = {} THEN << >>
    ELSE LET m == CHOOSE x \in ids : \A y \in ids :
                       x[1] < y[1] \/ (x[1] = y[1] /\ x[2] <= y[2])
         IN  <<m>> \o IdentitySeq(ids \ {m})

StartedFiring(id, amount) == [type |-> "StartedFiring", engine |-> id, amount |-> amount]
StoppedFiring(id) == [type |-> "StoppedFiring", engine |-> id, amount |-> 0]

\* the events for the identities in started and in stopped, in sending order
TransitionEvents(started, stopped, keys, o) ==
    [i \in 1..Len(started) |-> StartedFiring(started[i], ActivationOf(keys, o, started[i]))]
    \o [i \in 1..Len(stopped) |-> StoppedFiring(stopped[i])]

\* level-triggered: StartedFiring for every active identity on every tick
EmitTransitions_EveryTick(old, keys, o) ==
    TransitionEvents(IdentitySeq(ActiveSet(keys, o)),
                     IdentitySeq(old \ ActiveSet(keys, o)), keys, o)

\* nothing is sent for a body without a desire
EmitTransitions_SkipIdle(old, keys, o) ==
    IF ~o.ran THEN << >>
    ELSE TransitionEvents(IdentitySeq(ActiveSet(keys, o) \ old),
                          IdentitySeq(old \ ActiveSet(keys, o)), keys, o)

\* only the starts are sent
EmitTransitions_StartOnly(old, keys, o) ==
    TransitionEvents(IdentitySeq(ActiveSet(keys, o) \ old), << >>, keys, o)

\* the diff of the new active set against currently_firing, as the events
\* of the tick in the order they are sent
EmitTransitions(old, keys, o) ==
    TransitionEvents(IdentitySeq(ActiveSet(keys, o) \ old),
                     IdentitySeq(old \ ActiveSet(keys, o)), keys, o)

(***************************************************************************)
(* The state after construction: every Steering is Steering::default(),     *)
(* every Engine component was just added (and so counts as changed).  The   *)
(* world holds the controlled bodies bs, each with its parts; budget is     *)
(* the number of host mutations the behaviour may still make.               *)
(***************************************************************************)
\* one call of a function of optimizer.rs: its arguments, whether it has
\* returned, and what it returned
CallOf(op, engines, com, force, torque, firing, inv_moi_sqrt, inverse_mass, engine_scale) ==
    [op |-> op, done |-> FALSE, engines |-> engines, com |-> com, force |-> force,
     torque |-> torque, firing |-> firing, inv_moi_sqrt |-> inv_moi_sqrt,
     inverse_mass |-> inverse_mass, engine_scale |-> engine_scale, result |-> None]

\* no call of the optimizer module
CalcIdle == [CallOf("idle", << >>, <<0, 0>>, <<0, 0>>, 0, << >>, 0, 0, 0) EXCEPT !.done = TRUE]

\* the body a mount owner belongs to
ShipOf(e) == IF e \in Bodies THEN e ELSE Parent(e)

InitWorld(bs, budget) ==
    /\ bodies = bs
    /\ engine = [e \in Entities |->
                   IF e \in {1, 3} THEN << SubEngine(<<0, 1>>, 1) >> ELSE << >>]
    /\ changed = { e \in Entities : ShipOf(e) \in bs }
    /\ steering = [b \in bs |-> SteeringDefault]
    /\ world_com = [b \in bs |-> <<0, 0>>]
    /\ out = [b \in bs |-> OutIdle]
    /\ solve_log = [b \in bs |-> {}]
    /\ currently_firing = [b \in bs |-> {}]
    /\ event_keys = [b \in bs |-> << >>]
    /\ events = [b \in bs |-> << >>]
    /\ tick_log = [b \in bs |-> << >>]
    /\ pc = "update"
    /\ frame = 0
    /\ ops = budget

\* one controlled body with its two parts
Init == InitWorld({2}, MaxOps) /\ calc = CalcIdle

\* two controlled bodies
InitFleet == InitWorld(Bodies, MaxFleetOps) /\ calc = CalcIdle

(***************************************************************************)
(* Host mutations, before the update_steering stage of a frame.             *)
(***************************************************************************)
\* the entities whose mounts a body flies with
Owners(b) == { e \in Entities : ShipOf(e) = b }

\* the number of mounts a body currently has, over all its owners
RECURSIVE MountCountOf(_, _)
MountCountOf(owners, eng) ==
    IF owners = {} THEN 0
    ELSE LET e == CHOOSE x \in owners : TRUE
         IN  Len(eng[e]) + MountCountOf(owners \ {e}, eng)

MountCount(b) == MountCountOf(Owners(b), engine)

\* the caller writes the public fields desired_force and desired_torque
SetDesire(b, d) ==
    /\ pc = "update"
    /\ ops > 0
    /\ ops' = ops - 1
    /\ steering' = [steering EXCEPT ![b].desired_force = <<d[1], d[2]>>,
                                    ![b].desired_torque = d[3]]
    /\ UNCHANGED <<calc, bodies, engine, changed, world_com, out, solve_log, currently_firing,
                   event_keys, events, tick_log, pc, frame>>

\* Steering::clear_desire
ClearDesire(b) ==
    /\ pc = "update"
    /\ ops > 0
    /\ ops' = ops - 1
    /\ steering' = [steering EXCEPT ![b].desired_force = <<0, 0>>,
                                    ![b].desired_torque = 0]
    /\ UNCHANGED <<calc, bodies, engine, changed, world_com, out, solve_log, currently_firing,
                   event_keys, events, tick_log, pc, frame>>

\* the physics engine moves the body's center of mass
MoveCom(b, c) ==
    /\ pc = "update"
    /\ ops > 0
    /\ ops' = ops - 1
    /\ c # world_com[b]
    /\ world_com' = [world_com EXCEPT ![b] = c]
    /\ UNCHANGED <<calc, bodies, engine, changed, steering, out, solve_log, currently_firing,
                   event_keys, events, tick_log, pc, frame>>

\* a sub-engine is pushed on an Engine component, which marks it changed
AddMount(e, m) ==
    /\ pc = "update"
    /\ ops > 0
    /\ ShipOf(e) \in bodies
    /\ MountCount(ShipOf(e)) < MaxEngines
    /\ engine' = [engine EXCEPT ![e] = Append(@, m)]
    /\ changed' = changed \cup {e}
    /\ ops' = ops - 1
    /\ UNCHANGED <<calc, bodies, steering, world_com, out, solve_log, currently_firing,
                   event_keys, events, tick_log, pc, frame>>

\* the sub-engine at index i is removed from an Engine component
RemoveMount(e, i) ==
    /\ pc = "update"
    /\ ops > 0
    /\ ShipOf(e) \in bodies
    /\ i \in 1..Len(engine[e])
    /\ engine' = [engine EXCEPT ![e] = SubSeq(@, 1, i - 1) \o SubSeq(@, i + 1, Len(@))]
    /\ changed' = changed \cup {e}
    /\ ops' = ops - 1
    /\ UNCHANGED <<calc, bodies, steering, world_com, out, solve_log, currently_firing,
                   event_keys, events, tick_log, pc, frame>>

(***************************************************************************)
(* The update_steering stage.  It is a SystemStage::parallel(): a system    *)
(* may start once every system added before it whose access conflicts with  *)
(* its own has finished.  invalidate_caches and steering both write         *)
(* Steering, so steering waits for invalidate_caches.  pc tells which       *)
(* systems of the stage have finished in the current frame: none            *)
(* ("update", where the host mutations happen), invalidate_caches           *)
(* ("steering"), or steering alone ("invalidate").                          *)
(***************************************************************************)
\* the systems of the stage in the order they were added
StageSystems == << "invalidate_caches", "steering" >>

\* the components and resources the parameters of a system write and read
Writes(sys) ==
    IF sys = "invalidate_caches" THEN { "Steering" }
    ELSE { "Steering", "RigidBodySet" }
Reads(sys) ==
    IF sys = "invalidate_caches" THEN { "Engine", "Parent" }
    ELSE { "Engine", "Transform", "GlobalTransform", "Children",
           "RigidBodyHandleComponent", "ThrustScale" }

\* no access counts as a conflict: the systems may run in either order
Conflicts_None(s, t) == FALSE

\* one system writes what the other reads or writes
Conflicts(s, t) ==
    \/ Writes(s) \cap (Reads(t) \cup Writes(t)) # {}
    \/ Reads(s) \cap Writes(t) # {}

\* the systems of the stage that have finished in the current frame
Finished ==
    CASE pc = "steering" -> { "invalidate_caches" }
      [] pc = "invalidate" -> { "steering" }
      [] OTHER -> {}

\* the i-th system of the stage may start
MayStart(i) ==
    /\ StageSystems[i] \notin Finished
    /\ \A j \in 1..(i - 1) :
          Conflicts(StageSystems[j], StageSystems[i]) => StageSystems[j] \in Finished

\* the frames a behaviour of this world runs
FrameBound == IF bodies = Bodies THEN MaxFleetFrames ELSE MaxFrames

\* a change anywhere clears every controlled body
ToClear_EveryBody(chg) == IF chg = {} THEN {} ELSE bodies

\* the collection without the child_engines query
ToClear_OnlyBodies(chg) == { e \in chg : e \in bodies }

\* the bodies invalidate_caches collects from the two Changed<Engine> queries
ToClear(chg) ==
    { e \in chg : e \in bodies } \cup { Parent(e) : e \in { p \in chg : p \in Parts } }

\* the clearing without firings_cache.clear()
ClearSteering_KeepCache(st) == [st EXCEPT !.engines = None]

\* the clearing without engines.take()
ClearSteering_KeepEngines(st) == [st EXCEPT !.firings_cache = {}]

\* what invalidate_caches does to the Steering of a collected body
ClearSteering(st) == [st EXCEPT !.firings_cache = {}, !.engines = None]

InvalidateCaches ==
    /\ pc \in { "update", "invalidate" }
    /\ MayStart(1)
    /\ frame < FrameBound
    /\ steering' = [b \in bodies |->
                      IF b \in ToClear(changed) THEN ClearSteering(steering[b])
                      ELSE steering[b]]
    /\ changed' = {}
    /\ pc' = IF pc = "update" THEN "steering" ELSE "update"
    /\ frame' = IF pc = "update" THEN frame ELSE frame + 1
    /\ UNCHANGED <<calc, bodies, engine, world_com, out, solve_log, currently_firing,
                   event_keys, events, tick_log, ops>>

\* the outcomes of the loop over the bodies bs: one outcome of the loop body
\* for each of them
RECURSIVE LoopOutcomes(_)
LoopOutcomes(bs) ==
    IF bs = {} THEN { << >> }
    ELSE LET b == CHOOSE x \in bs : TRUE
         IN  { (b :> o) @@ rest :
                 o \in SteerBody(b, steering[b], world_com[b], engine),
                 rest \in LoopOutcomes(bs \ {b}) }

\* the steering system: the loop over every controlled body
SteeringSystem ==
    /\ pc \in { "update", "steering" }
    /\ MayStart(2)
    /\ frame < FrameBound
    /\ \E res \in LoopOutcomes(bodies) :
         /\ steering' = [b \in bodies |-> res[b].st]
         /\ out' = [b \in bodies |-> res[b].out]
         /\ solve_log' = [b \in bodies |->
                            IF res[b].out.solved = None THEN solve_log[b]
                            ELSE solve_log[b] \cup
                                 { [frame |-> frame, key |-> res[b].out.key[1],
                                    call |-> res[b].out.solved[1],
                                    firing |-> res[b].out.firing[1]] }]
         /\ event_keys' = [b \in bodies |->
                             IF res[b].out.resolved
                             THEN IdentityList(OwnerOrder(b), engine) ELSE event_keys[b]]
         /\ events' = [b \in bodies |->
                         EmitTransitions(currently_firing[b], event_keys'[b], res[b].out)]
         /\ currently_firing' = [b \in bodies |-> ActiveSet(event_keys'[b], res[b].out)]
         /\ tick_log' = [b \in bodies |->
                           Append(tick_log[b],
                                  [ran |-> res[b].out.ran,
                                   keys |-> event_keys'[b],
                                   firing |-> res[b].out.firing,
                                   events |-> events'[b],
                                   com |-> world_com[b]])]
    /\ pc' = IF pc = "steering" THEN "update" ELSE "invalidate"
    /\ frame' = IF pc = "steering" THEN frame + 1 ELSE frame
    /\ UNCHANGED <<calc, bodies, engine, changed, world_com, ops>>

Next ==
    \/ \E b \in bodies, d \in Desires : SetDesire(b, d)
    \/ \E b \in bodies : ClearDesire(b)
    \/ \E b \in bodies, c \in ComVals : MoveCom(b, c)
    \/ \E e \in Entities, m \in SubEngines : AddMount(e, m)
    \/ \E e \in Entities, i \in 1..MaxEngines : RemoveMount(e, i)
    \/ InvalidateCaches
    \/ SteeringSystem

Spec == Init /\ [][Next]_vars

SpecFleet == InitFleet /\ [][Next]_vars

(***************************************************************************)
(* A failing solve.  problem.solve() returns a Result and the closure       *)
(* unwraps it (lib.rs:204): on Err the steering system panics inside        *)
(* or_insert_with, in the middle of its loop over the bodies.  The bodies   *)
(* the loop had already passed keep what their loop body did; the failing   *)
(* body keeps what was written before the closure ran (the resolved list,   *)
(* the drift handling); the bodies the loop had not reached are left alone. *)
(* The query's iteration order is not fixed by the code: any subset of the  *)
(* other bodies may have been passed.                                       *)
(***************************************************************************)
\* the Steering cache of a body at the lookup, after the drift handling
CacheAtLookup(st, com) ==
    IF ComDrifted(st.last_seen_com, com) THEN {} ELSE st.firings_cache

\* the body reaches or_insert_with with a key that is not stored
MissesCache(st, com) ==
    /\ HasDesire(st)
    /\ CacheEntries(CacheAtLookup(st, com), QuantKey(st.desired_force, st.desired_torque)) = {}

\* the Steering of the body when unwrap() panics: no entry was inserted
SteeringAtPanic(b, st, com, eng) ==
    [st EXCEPT !.engines = IF st.engines = None THEN Some(ResolveEngines(b, eng))
                           ELSE st.engines,
               !.last_seen_com = IF ComDrifted(st.last_seen_com, com) THEN com
                                 ELSE st.last_seen_com,
               !.firings_cache = CacheAtLookup(st, com)]

\* what steering did for the body whose solve failed: no vector, no impulse
OutAtPanic(b, st, com, eng) ==
    [ran |-> TRUE, resolved |-> st.engines = None,
     com_cleared |-> ComDrifted(st.last_seen_com, com), hit |-> FALSE,
     request |-> Some([force |-> st.desired_force, torque |-> st.desired_torque,
                       com |-> com]),
     key |-> Some(QuantKey(st.desired_force, st.desired_torque)),
     solved |-> Some([engines |-> SteeringAtPanic(b, st, com, eng).engines[1],
                      com |-> com, force |-> st.desired_force,
                      torque |-> st.desired_torque]),
     firing |-> None, impulses |-> << >>]

SteeringPanics ==
    /\ pc = "steering"
    /\ \E b \in bodies :
         /\ MissesCache(steering[b], world_com[b])
         /\ \E passed \in SUBSET (bodies \ {b}) : \E res \in LoopOutcomes(passed) :
              /\ steering' = [c \in bodies |->
                                IF c \in passed THEN res[c].st
                                ELSE IF c = b
                                THEN SteeringAtPanic(b, steering[b], world_com[b], engine)
                                ELSE steering[c]]
              /\ out' = [c \in bodies |->
                           IF c \in passed THEN res[c].out
                           ELSE IF c = b
                           THEN OutAtPanic(b, steering[b], world_com[b], engine)
                           ELSE OutIdle]
              /\ solve_log' = [c \in bodies |->
                                 IF c \notin passed \/ res[c].out.solved = None
                                 THEN solve_log[c]
                                 ELSE solve_log[c] \cup
                                      { [frame |-> frame, key |-> res[c].out.key[1],
                                         call |-> res[c].out.solved[1],
                                         firing |-> res[c].out.firing[1]] }]
              /\ event_keys' = [c \in bodies |->
                                  IF c \in passed /\ res[c].out.resolved
                                  THEN IdentityList(OwnerOrder(c), engine)
                                  ELSE event_keys[c]]
              /\ events' = [c \in bodies |->
                              IF c \in passed
                              THEN EmitTransitions(currently_firing[c], event_keys'[c],
                                                   res[c].out)
                              ELSE << >>]
              /\ currently_firing' = [c \in bodies |->
                                        IF c \in passed
                                        THEN ActiveSet(event_keys'[c], res[c].out)
                                        ELSE currently_firing[c]]
              /\ tick_log' = [c \in bodies |->
                                IF c \in passed
                                THEN Append(tick_log[c],
                                            [ran |-> res[c].out.ran,
                                             keys |-> event_keys'[c],
                                             firing |-> res[c].out.firing,
                                             events |-> events'[c],
                                             com |-> world_com[c]])
                                ELSE tick_log[c]]
    /\ pc' = "panicked"
    /\ frame' = frame + 1
    /\ UNCHANGED <<calc, bodies, engine, changed, world_com, ops>>

NextFault == Next \/ SteeringPanics

\* two controlled bodies, and a solver that may report failure
SpecFault == InitFleet /\ [][NextFault]_vars

(***************************************************************************)
(* The optimizer module (optimizer.rs): calculate_firing and                *)
(* estimate_acceleration are functions of their arguments only.  An engine  *)
(* is (position, thrust_vector, max_thrust, identity); neither function     *)
(* reads the identity, so it is left out.  Positions, centers of mass and   *)
(* the desired force and torque are in tenths; activations passed to and    *)
(* returned by the functions are in hundredths.                             *)
(***************************************************************************)
\* engines the functions are called with: thrust vectors along an axis, of
\* length 1 and 2, on both sides of the center of mass, two of them opposed
OptCatalogue ==
    << << <<-10, 0>>, <<0, 2>>, 1 >>,
       << <<10, 0>>, <<0, 1>>, 1 >>,
       << <<0, 0>>, <<1, 0>>, 2 >>,
       << <<0, 0>>, <<-1, 0>>, 2 >>,
       << <<0, 10>>, <<2, 0>>, 1 >> >>

\* the engines of the catalogue with index in S, from index i on
RECURSIVE PickEngines(_, _)
PickEngines(S, i) ==
    IF i > Len(OptCatalogue) THEN << >>
    ELSE (IF i \in S THEN << OptCatalogue[i] >> ELSE << >>) \o PickEngines(S, i + 1)

\* the engine slices of at most MaxOptEngines engines
OptEngineLists ==
    { PickEngines(S, 1) :
        S \in { T \in SUBSET (1..Len(OptCatalogue)) : Cardinality(T) <= MaxOptEngines } }

\* center_of_mass, desired_force and desired_torque arguments, in tenths
OptComs == { <<0, 0>>, <<5, 5>> }
OptForces == { <<0, 0>>, <<0, 2>>, <<10, 0>> }
OptTorqueVals == { 0, 5, -5 }

\* (x * 100.0).round() / 100.0 of the activation a / ActSteps, in hundredths
Round100(a) == (200 * a + ActSteps) \div (2 * ActSteps)

\* the firing slices estimate_acceleration is given: rounded activations
FiringLevels == { Round100(a) : a \in ActivationLevels }
\* inverse_moment_of_inertia_sqrt, inverse_mass and engine_scale arguments
OptInverses == { 1, 2 }

\* Vec2::normalize of a non-zero vector along an axis
Sign(x) == IF x > 0 THEN 1 ELSE IF x < 0 THEN -1 ELSE 0
Normalize(v) == <<Sign(v[1]), Sign(v[2])>>

\* thrust_vector.normalize() * max_thrust
OptThrustVector(e) == VScale(Normalize(e[2]), e[3])

\* the torque coefficient of every engine: the cross product of its distance
\* to the center of mass with its thrust vector, times torque_weight =
\* total_thrust * 10 (which cancels the tenths of the distance)
OptTorques(engines, com) ==
    [i \in 1..Len(engines) |->
       CrossZ(VSub(engines[i][1], com), OptThrustVector(engines[i])) * TotalThrust(engines)]

\* total_positive_torque and total_negative_torque after the loop
TotalPositiveTorque(engines, com) ==
    LET t == OptTorques(engines, com)
    IN  SeqSum([i \in 1..Len(engines) |-> IF t[i] > 0 THEN Abs(t[i]) ELSE 0])

TotalNegativeTorque(engines, com) ==
    LET t == OptTorques(engines, com)
    IN  SeqSum([i \in 1..Len(engines) |-> IF t[i] > 0 THEN 0 ELSE Abs(t[i])])

\* the shadowing let desired_torque = if desired_torque > 0.0 {..} else {..},
\* times 10
OptDesiredTorque(engines, com, torque) ==
    IF torque > 0 THEN torque * TotalPositiveTorque(engines, com)
    ELSE torque * TotalNegativeTorque(engines, com)

\* the coefficients of the problem of calculate_firing, scaled by 10 (and the
\* targets by ActSteps, the denominator of an activation)
OptProblem(engines, com, force, torque) ==
    LET n == Len(engines)
        t == OptTorques(engines, com)
        desire == VScale(force, TotalThrust(engines))
    IN  [torques |-> [i \in 1..n |-> 10 * t[i]],
         forces_x |-> [i \in 1..n |-> 10 * OptThrustVector(engines[i])[1]],
         forces_y |-> [i \in 1..n |-> 10 * OptThrustVector(engines[i])[2]],
         desired_torque |-> OptDesiredTorque(engines, com, torque) * ActSteps,
         desire_x |-> desire[1] * ActSteps,
         desire_y |-> desire[2] * ActSteps]

\* the bounds (1.0, 1.0) of desire_var
DesireVarValue == 1

\* the six constraints with the error variables entered as (u, 1.0)
Rows_ErrorAdded(problem, a, u, v, w, d) ==
    <<  Dot(problem.torques, a) + u - problem.desired_torque * d,
       -Dot(problem.torques, a) + u + problem.desired_torque * d,
        Dot(problem.forces_x, a) + v - problem.desire_x * d,
       -Dot(problem.forces_x, a) + v + problem.desire_x * d,
        Dot(problem.forces_y, a) + w - problem.desire_y * d,
       -Dot(problem.forces_y, a) + w + problem.desire_y * d >>

\* the left-hand sides of the six constraints at the activations a, the error
\* variables u, v, w (each entered as (u, -1.0)) and desire_var d; every
\* constraint is "<= 0.0"
Rows(problem, a, u, v, w, d) ==
    <<  Dot(problem.torques, a) - u - problem.desired_torque * d,
       -Dot(problem.torques, a) - u + problem.desired_torque * d,
        Dot(problem.forces_x, a) - v - problem.desire_x * d,
       -Dot(problem.forces_x, a) - v + problem.desire_x * d,
        Dot(problem.forces_y, a) - w - problem.desire_y * d,
       -Dot(problem.forces_y, a) - w + problem.desire_y * d >>

\* the assignment satisfies the bounds of the variables (u, v, w are free)
\* and the six constraints
Satisfies(problem, a, u, v, w, d) ==
    /\ d = DesireVarValue
    /\ \A i \in 1..Len(a) : 0 <= a[i] /\ a[i] <= ActSteps
    /\ \A i \in 1..6 : Rows(problem, a, u, v, w, d)[i] <= 0

\* the activations at which the problem has a feasible assignment: the error
\* variables, minimized with cost 1, sit at the absolute residuals
FeasibleActivations(problem, n) ==
    { a \in [1..n -> ActivationLevels] :
        Satisfies(problem, a,
                  Abs(Dot(problem.torques, a) - problem.desired_torque),
                  Abs(Dot(problem.forces_x, a) - problem.desire_x),
                  Abs(Dot(problem.forces_y, a) - problem.desire_y),
                  DesireVarValue) }

\* the activations read back from the solution, each rounded to hundredths
RoundAll(a) == [i \in 1..Len(a) |-> Round100(a[i])]

\* calculate_firing: what a call can return; None stands for the panic of
\* problem.solve().unwrap() on an infeasible problem
calculate_firing(engines, com, force, torque) ==
    LET p == OptProblem(engines, com, force, torque)
        feasible == FeasibleActivations(p, Len(engines))
    IN  IF feasible = {} THEN { None }
        ELSE { Some(RoundAll(a)) : a \in Minimizers(p, feasible) }

\* the thrust vector of one firing engine in estimate_acceleration:
\* thrust_vector * max_thrust * firing_amount * engine_scale, in hundredths
EstThrustVector(e, firing_amount, engine_scale) ==
    VScale(e[2], e[3] * firing_amount * engine_scale)

\* the torque of one firing engine: the z component of the cross product,
\* times -1.0; in thousandths
EstTorque(e, com, firing_amount, engine_scale) ==
    CrossZ(VSub(e[1], com), EstThrustVector(e, firing_amount, engine_scale)) * (-1)

\* estimate_acceleration: the loop over engines.iter().zip(firing), which
\* skips every engine whose firing_amount is not positive
RECURSIVE estimate_acceleration(_, _, _, _, _, _)
estimate_acceleration(inv_moi_sqrt, inverse_mass, engine_scale, com, engines, firing) ==
    IF engines = << >> \/ firing = << >>
    THEN [acceleration |-> <<0, 0>>, angular_acceleration |-> 0]
    ELSE LET rest == estimate_acceleration(inv_moi_sqrt, inverse_mass, engine_scale, com,
                                           Tail(engines), Tail(firing))
             e == Head(engines)
             f == Head(firing)
         IN  IF f > 0
             THEN [acceleration |->
                     VAdd(VScale(EstThrustVector(e, f, engine_scale), inverse_mass),
                          rest.acceleration),
                   angular_acceleration |->
                     inv_moi_sqrt * (inv_moi_sqrt * EstTorque(e, com, f, engine_scale))
                     + rest.angular_acceleration]
             ELSE rest

\* the calls of calculate_firing
FiringCalls ==
    { CallOf("calculate_firing", es, c, f, t, << >>, 0, 0, 0) :
        es \in OptEngineLists, c \in OptComs, f \in OptForces, t \in OptTorqueVals }

\* the calls of estimate_acceleration, with one firing amount per engine
EstimateCalls ==
    UNION { { CallOf("estimate_acceleration", es, c, <<0, 0>>, 0, fs, i, m, s) :
                fs \in [1..Len(es) -> FiringLevels], c \in OptComs,
                i \in OptInverses, m \in OptInverses, s \in OptInverses } :
            es \in OptEngineLists }

\* a world in which nothing runs, and one call of the optimizer module
InitOptimizer ==
    /\ InitWorld({2}, 0)
    /\ calc \in FiringCalls \cup EstimateCalls

CalculateFiring ==
    /\ calc.op = "calculate_firing"
    /\ ~calc.done
    /\ \E r \in calculate_firing(calc.engines, calc.com, calc.force, calc.torque) :
          calc' = [calc EXCEPT !.done = TRUE, !.result = r]
    /\ UNCHANGED <<bodies, engine, changed, steering, world_com, out, solve_log,
                   currently_firing, event_keys, events, tick_log, pc, frame, ops>>

EstimateAcceleration ==
    /\ calc.op = "estimate_acceleration"
    /\ ~calc.done
    /\ calc' = [calc EXCEPT !.done = TRUE,
                            !.result = Some(estimate_acceleration(
                                calc.inv_moi_sqrt, calc.inverse_mass, calc.engine_scale,
                                calc.com, calc.engines, calc.firing))]
    /\ UNCHANGED <<bodies, engine, changed, steering, world_com, out, solve_log,
                   currently_firing, event_keys, events, tick_log, pc, frame, ops>>

NextOptimizer == CalculateFiring \/ EstimateAcceleration

\* the functions of optimizer.rs, each applied to one argument list
SpecOptimizer == InitOptimizer /\ [][NextOptimizer]_vars

(***************************************************************************)
(* Steps of the stage, as seen from outside.                                *)
(***************************************************************************)
InvalidateStep == pc = "update" /\ pc' = "steering"
SteeringStep == pc = "steering" /\ pc' = "update"

\* the vectors stored under the key of the body's current desire
StoredFor(b) ==
    { e.firing : e \in { c \in steering[b].firings_cache :
          c.key = QuantKey(steering[b].desired_force, steering[b].desired_torque) } }

\* the body's desire is not zero
Requests(b) == steering[b].desired_force # <<0, 0>> \/ steering[b].desired_torque # 0

\* the center of mass is farther than the threshold from the recorded one
Displaced(b) == DistanceSquared(steering[b].last_seen_com, world_com[b]) > ComThresholdSq

(***************************************************************************)
(* C1  Cache consistency: on a tick without invalidation in between (the    *)
(* center of mass within the threshold of the recorded one), a request      *)
(* whose key is already stored uses exactly the stored vector, whatever the *)
(* exact desired values inside the bucket, and leaves the cache unchanged.  *)
(***************************************************************************)
C1_CacheConsistency ==
    [][SteeringStep =>
         \A b \in bodies :
            (Requests(b) /\ ~Displaced(b) /\ StoredFor(b) # {}) =>
               /\ out'[b].firing # None
               /\ out'[b].firing[1] \in StoredFor(b)
               /\ Cardinality(StoredFor(b)) = 1
               /\ steering'[b].firings_cache = steering[b].firings_cache]_vars

\* a tick served from the cache although a fresh solve of the exact request
\* would have given another vector
C1_Witness ==
    \E b \in bodies :
       /\ out[b].hit
       /\ steering[b].engines # None
       /\ out[b].firing[1] \notin Solve(steering[b].engines[1], out[b].request[1].com,
                                        out[b].request[1].force, out[b].request[1].torque)

(***************************************************************************)
(* C2  Topology invalidation: on every tick of a body with a desire, the    *)
(* activation vector used and the resolved list have exactly as many        *)
(* entries as the body has mounts (over itself and its parts) at that tick, *)
(* whatever mounts were added or removed since the key was last cached.     *)
(***************************************************************************)
C2_TopologyInvalidation ==
    [][SteeringStep =>
         \A b \in bodies :
            Requests(b) =>
               /\ out'[b].firing # None
               /\ Len(out'[b].firing[1]) = MountCount(b)
               /\ Len(steering'[b].engines[1]) = MountCount(b)]_vars

\* a key solved once, then solved again on a later tick after the mount set
\* grew: the second vector has the new length
C2_Witness ==
    \E b \in bodies : \E r1 \in solve_log[b], r2 \in solve_log[b] :
       /\ r1.key = r2.key
       /\ r1.frame < r2.frame
       /\ Len(r1.firing) < Len(r2.firing)
       /\ out[b].resolved
       /\ out[b].firing = Some(r2.firing)
       /\ Len(r2.firing) = MountCount(b)

(***************************************************************************)
(* C3  A detected mount change of a body or of one of its parts clears the  *)
(* resolved list and the whole firing cache of that body in one step; the   *)
(* resolved list is never cleared without the cache, and a body without a   *)
(* change keeps its Steering.                                               *)
(***************************************************************************)
C3_ClearsBoth ==
    [][/\ InvalidateStep =>
            \A b \in bodies :
               IF \E e \in changed : ShipOf(e) = b
               THEN steering'[b].engines = None /\ steering'[b].firings_cache = {}
               ELSE steering'[b] = steering[b]
       /\ \A b \in bodies :
            (steering[b].engines # None /\ steering'[b].engines = None) =>
               steering'[b].firings_cache = {}]_vars

\* just after invalidate_caches: a body that had ticked (so had a resolved
\* list and a cache entry) has neither
C3_Witness ==
    \E b \in bodies :
       /\ pc = "steering"
       /\ out[b].ran
       /\ steering[b].engines = None
       /\ steering[b].firings_cache = {}

(***************************************************************************)
(* C4  Center-of-mass invalidation: on a tick of a body with a desire whose *)
(* center of mass is beyond the threshold from the recorded one, the cache  *)
(* is cleared before the lookup: the solver is called with the new center   *)
(* of mass, the recorded center of mass becomes the new one and the cache   *)
(* holds the new vector only.                                               *)
(***************************************************************************)
C4_ComInvalidation ==
    [][SteeringStep =>
         \A b \in bodies :
            (Requests(b) /\ Displaced(b)) =>
               /\ ~out'[b].hit
               /\ out'[b].solved # None
               /\ out'[b].solved[1].com = world_com[b]
               /\ steering'[b].last_seen_com = world_com[b]
               /\ steering'[b].firings_cache =
                    { [key |-> QuantKey(steering[b].desired_force, steering[b].desired_torque),
                       firing |-> out'[b].firing[1]] }]_vars

\* a key solved before the displacement is solved again after it, with the
\* same resolved list and another center of mass, and gives another vector
C4_Witness ==
    \E b \in bodies : \E r1 \in solve_log[b], r2 \in solve_log[b] :
       /\ r1.key = r2.key
       /\ r1.frame < r2.frame
       /\ r1.call.engines = r2.call.engines
       /\ r1.call.com # r2.call.com
       /\ r1.firing # r2.firing
       /\ out[b].com_cleared
       /\ out[b].firing = Some(r2.firing)

(***************************************************************************)
(* The ticks of a body so far (tick_log), read for the transition properties.*)
(***************************************************************************)
\* the identities whose activation was > 0 on the logged tick
LogActive(t) ==
    IF t.firing = None THEN {}
    ELSE { t.keys[i] : i \in { j \in 1..Len(t.keys) : t.firing[1][j] > 0 } }

\* the identities active on the tick before tick k of body b
ActiveBefore(b, k) == IF k = 1 THEN {} ELSE LogActive(tick_log[b][k - 1])

\* how many events of a type tick t sent for an identity
EventCount(t, type, id) ==
    Cardinality({ i \in 1..Len(t.events) : t.events[i].type = type /\ t.events[i].engine = id })

\* every identity a log can mention
Identities == { <<e, i>> : e \in Entities, i \in 1..MaxEngines }

(***************************************************************************)
(* C5  Edge-triggered transitions: on every tick every thruster gets        *)
(* exactly one StartedFiring if it is active now and was not on the tick    *)
(* before, exactly one StoppedFiring if it was active and is not now, and   *)
(* no event at all if its state did not change.                             *)
(***************************************************************************)
C5_EdgeTriggered ==
    \A b \in bodies : \A k \in 1..Len(tick_log[b]) : \A id \in Identities :
       LET t == tick_log[b][k]
           is == id \in LogActive(t)
           was == id \in ActiveBefore(b, k)
       IN  /\ EventCount(t, "StartedFiring", id) = IF is /\ ~was THEN 1 ELSE 0
           /\ EventCount(t, "StoppedFiring", id) = IF was /\ ~is THEN 1 ELSE 0

\* a thruster that started on one tick, stayed active without an event on
\* the next and stopped on the third
C5_Witness ==
    \E b \in bodies : \E id \in Identities :
       /\ Len(tick_log[b]) = 3
       /\ id \in LogActive(tick_log[b][1]) /\ id \in LogActive(tick_log[b][2])
       /\ EventCount(tick_log[b][1], "StartedFiring", id) = 1
       /\ tick_log[b][2].events = << >>
       /\ EventCount(tick_log[b][3], "StoppedFiring", id) = 1

(***************************************************************************)
(* C6  A tick of a body with zero desired force and torque sends exactly    *)
(* one StoppedFiring for every thruster active on the tick before, and      *)
(* leaves no thruster recorded as firing.                                   *)
(***************************************************************************)
C6_IdleTickStops ==
    \A b \in bodies : \A k \in 1..Len(tick_log[b]) :
       ~tick_log[b][k].ran =>
          /\ \A id \in ActiveBefore(b, k) :
                EventCount(tick_log[b][k], "StoppedFiring", id) = 1
          /\ LogActive(tick_log[b][k]) = {}
          /\ (k = Len(tick_log[b]) => currently_firing[b] = {})

\* a zero tick right after a tick on which a thruster fired
C6_Witness ==
    \E b \in bodies : \E k \in 2..Len(tick_log[b]) :
       /\ ~tick_log[b][k].ran
       /\ ActiveBefore(b, k) # {}
       /\ Len(tick_log[b][k].events) = Cardinality(ActiveBefore(b, k))

(***************************************************************************)
(* C7  Force application: on a tick with a desire, every resolved thruster  *)
(* with activation > 0 gets exactly one impulse, direction * max_thrust *   *)
(* activation * thrust scale, and a thruster with activation 0 gets none.   *)
(***************************************************************************)
C7_ImpulseProportional ==
    \A b \in bodies :
       (out[b].ran /\ steering[b].engines # None) =>
          LET eng == steering[b].engines[1]
              f == out[b].firing[1]
              imp == out[b].impulses
          IN  \A i \in 1..Len(eng) :
                 LET calls == { j \in 1..Len(imp) : imp[j].index = i }
                 IN  IF f[i] > 0
                     THEN /\ Cardinality(calls) = 1
                          /\ \A j \in calls :
                                VScale(imp[j].vector, ActSteps) =
                                  VScale(RotateVec(Rotation(b), eng[i][2]),
                                         eng[i][3] * f[i] * ThrustScaleDefault)
                     ELSE calls = {}

(***************************************************************************)
(* C8  Range invariant: every activation in the vector used on a tick, in   *)
(* every vector the solver returned and in every vector of a firing cache   *)
(* lies between 0 and 1.                                                    *)
(***************************************************************************)
InUnitRange(f) == \A i \in 1..Len(f) : 0 <= f[i] /\ f[i] <= ActSteps

C8_RangeInvariant ==
    \A b \in bodies :
       /\ \A e \in steering[b].firings_cache : InUnitRange(e.firing)
       /\ \A r \in solve_log[b] : InUnitRange(r.firing)
       /\ (out[b].firing # None => InUnitRange(out[b].firing[1]))

\* the solver was pushed against the upper bound: a vector with a full
\* activation was returned, is in the cache and was used on the tick
C8_Witness ==
    \E b \in bodies : \E r \in solve_log[b] :
       /\ \E i \in 1..Len(r.firing) : r.firing[i] = ActSteps
       /\ \E e \in steering[b].firings_cache : e.firing = r.firing
       /\ out[b].firing = Some(r.firing)

(***************************************************************************)
(* C9  Zero request: a tick of a body with desired force (0,0) and desired  *)
(* torque 0 does not call the solver, applies no impulse, uses no positive  *)
(* activation and leaves the Steering as it was.                            *)
(***************************************************************************)
C9_ZeroRequest ==
    [][SteeringStep =>
         \A b \in bodies :
            ~Requests(b) =>
               /\ out'[b].solved = None
               /\ out'[b].impulses = << >>
               /\ (out'[b].firing = None \/
                     \A i \in 1..Len(out'[b].firing[1]) : out'[b].firing[1][i] = 0)
               /\ solve_log'[b] = solve_log[b]
               /\ steering'[b] = steering[b]]_vars

\* a zero tick of a body that has a resolved list and a cached vector from
\* an earlier tick
C9_Witness ==
    \E b \in bodies :
       /\ pc = "update" /\ frame > 1
       /\ ~out[b].ran
       /\ steering[b].engines # None /\ steering[b].engines # Some(<< >>)
       /\ steering[b].firings_cache # {}
       /\ ~tick_log[b][Len(tick_log[b])].ran

(***************************************************************************)
(* C10  Degenerate mount rejection: no resolved thruster has the thrust     *)
(* direction (0,0), and the resolved list has one entry per mount with a    *)
(* non-zero direction.                                                      *)
(***************************************************************************)
RECURSIVE ValidMountCount(_)
ValidMountCount(owners) ==
    IF owners = {} THEN 0
    ELSE LET e == CHOOSE x \in owners : TRUE
         IN  Cardinality({ i \in 1..Len(engine[e]) : engine[e][i].thrust_vector # <<0, 0>> })
             + ValidMountCount(owners \ {e})

C10_DegenerateRejected ==
    \A b \in bodies :
       (steering[b].engines # None /\ changed = {}) =>
          /\ \A i \in 1..Len(steering[b].engines[1]) : steering[b].engines[1][i][2] # <<0, 0>>
          /\ pc = "update" => Len(steering[b].engines[1]) = ValidMountCount(Owners(b))

(***************************************************************************)
(* C11  Solver failure handling: when the solve fails for a body on a tick, *)
(* that body gets no impulse and no cache entry for the key, every other    *)
(* body still completes the tick, and the stage goes on to the next frame.  *)
(***************************************************************************)
\* the solve of the body's last tick failed
SolveFailed(b) == out[b].ran /\ out[b].firing = None

C11_FailureContained ==
    \A b \in bodies :
       SolveFailed(b) =>
          /\ out[b].impulses = << >>
          /\ CacheEntries(steering[b].firings_cache, out[b].key[1]) = {}
          /\ \A c \in bodies \ {b} : Len(tick_log[c]) = frame
          /\ pc # "panicked"

(***************************************************************************)
(* C12  Resolver determinism: a resolved list that no mount change has      *)
(* outdated is exactly the list of the current mounts, owner by owner in    *)
(* ascending identity (whatever the order of Children), each owner's mounts *)
(* in their stored order, the body's own mounts untransformed and a part's  *)
(* mounts placed and turned by the part's transform.                        *)
(***************************************************************************)
\* the mounts of the owners, least identity first
RECURSIVE MountsAscending(_, _)
MountsAscending(b, owners) ==
    IF owners = {} THEN << >>
    ELSE LET e == CHOOSE x \in owners : \A y \in owners : x <= y
         IN  [i \in 1..Len(engine[e]) |->
                 IF e = b
                 THEN << <<0, 0>>, engine[e][i].thrust_vector, engine[e][i].max_thrust >>
                 ELSE << Translation(e), RotateVec(Rotation(e), engine[e][i].thrust_vector),
                         engine[e][i].max_thrust >>]
             \o MountsAscending(b, owners \ {e})

C12_ResolverDeterminism ==
    \A b \in bodies :
       (steering[b].engines # None /\ changed = {}) =>
          steering[b].engines[1] = MountsAscending(b, Owners(b))

\* a body with a mount of its own and one on a part listed after it: the
\* resolved list is not in the order the owners were collected in
C12_Witness ==
    \E b \in bodies :
       /\ out[b].resolved /\ changed = {}
       /\ steering[b].engines # None
       /\ engine[b] # << >>
       /\ steering[b].engines[1] # FlattenOwners(b, OwnerList(b), engine)
       /\ RotateVec(Rotation(b), engine[b][1].thrust_vector) # engine[b][1].thrust_vector

(***************************************************************************)
(* C13  Per-body independence: the stage changes the control state of a     *)
(* body only for that body's own reasons.  invalidate_caches leaves a body  *)
(* alone unless the body or one of its own parts has a changed Engine;      *)
(* steering leaves a body without a desire alone, never writes the desire,  *)
(* keeps a resolved list that is present, moves the recorded center of      *)
(* mass and drops cache entries only when the body's own center of mass     *)
(* has drifted, and adds at most the entry of the body's own key; whatever  *)
(* happens to the other bodies in the same step.                            *)
(***************************************************************************)
C13_Independence ==
    [][\A b \in bodies :
          /\ InvalidateStep =>
                ((\A e \in changed : ShipOf(e) # b) => steering'[b] = steering[b])
          /\ SteeringStep =>
                /\ steering'[b].desired_force = steering[b].desired_force
                /\ steering'[b].desired_torque = steering[b].desired_torque
                /\ ~Requests(b) => steering'[b] = steering[b]
                /\ steering[b].engines # None => steering'[b].engines = steering[b].engines
                /\ ~Displaced(b) =>
                      /\ steering'[b].last_seen_com = steering[b].last_seen_com
                      /\ steering[b].firings_cache \subseteq steering'[b].firings_cache
                /\ \A e \in steering'[b].firings_cache \ steering[b].firings_cache :
                      e.key = QuantKey(steering[b].desired_force, steering[b].desired_torque)]_vars

\* both bodies had ticked; then a mount was added on a part of one body: on
\* the next tick that body resolved and solved again while the other body
\* was served from its cache with its resolved list kept
C13_Witness ==
    \E b \in bodies, c \in bodies :
       /\ b # c
       /\ frame = 2 /\ pc = "update"
       /\ \E p \in Parts : Parent(p) = b /\ Len(engine[p]) = 2
       /\ out[b].resolved /\ out[b].solved # None
       /\ out[c].hit /\ ~out[c].resolved /\ ~out[c].com_cleared
       /\ steering[c].engines # None

\* both bodies had ticked; then the center of mass of one body drifted: its
\* cache was cleared on the next tick while the other body kept its own
C13_WitnessDrift ==
    \E b \in bodies, c \in bodies :
       /\ b # c
       /\ out[b].com_cleared /\ out[b].solved # None
       /\ out[c].hit /\ ~out[c].resolved /\ ~out[c].com_cleared

(***************************************************************************)
(* C14  One generation: every vector stored in a firing cache has one entry *)
(* per thruster of the resolved list and is the result of a solver call     *)
(* made with exactly that resolved list; a Steering without a resolved list *)
(* has an empty cache.                                                      *)
(***************************************************************************)
C14_OneGeneration ==
    \A b \in bodies :
       IF steering[b].engines = None
       THEN steering[b].firings_cache = {}
       ELSE \A e \in steering[b].firings_cache :
               /\ Len(e.firing) = Len(steering[b].engines[1])
               /\ \E r \in solve_log[b] :
                     /\ r.key = e.key
                     /\ r.firing = e.firing
                     /\ r.call.engines = steering[b].engines[1]

\* a cache filled from the second resolved list of the body: an earlier
\* solver call was made with a list of another length
C14_Witness ==
    \E b \in bodies :
       /\ steering[b].engines # None
       /\ steering[b].firings_cache # {}
       /\ \E r \in solve_log[b] :
             Len(r.call.engines) # Len(steering[b].engines[1])

(***************************************************************************)
(* C15  Lazy resolution: the resolver runs for a body exactly on the ticks  *)
(* on which the body has a desire and no resolved list, and what it stores  *)
(* is the whole list of the current mounts.  A resolved list that is        *)
(* present is never modified: the only change it can undergo is to become   *)
(* absent, in invalidate_caches, when the body or one of its parts has a    *)
(* changed Engine.                                                          *)
(***************************************************************************)
C15_LazyResolution ==
    [][\A b \in bodies :
          /\ SteeringStep =>
                /\ out'[b].resolved <=> (Requests(b) /\ steering[b].engines = None)
                /\ out'[b].resolved =>
                      steering'[b].engines = Some(MountsAscending(b, Owners(b)))
                /\ ~out'[b].resolved => steering'[b].engines = steering[b].engines
          /\ (steering[b].engines # None /\ steering'[b].engines # steering[b].engines) =>
                /\ InvalidateStep
                /\ \E e \in changed : ShipOf(e) = b
                /\ steering'[b].engines = None]_vars

\* the third tick of a body: the list was resolved on the first tick,
\* resolved again after a mount change, and is used as it is on this tick
C15_Witness ==
    \E b \in bodies :
       /\ frame = 3 /\ pc = "update"
       /\ out[b].ran /\ ~out[b].resolved
       /\ steering[b].engines # None
       /\ \E r \in solve_log[b] : r.call.engines # steering[b].engines[1]

(***************************************************************************)
(* C16  A tick of a body whose center of mass is beyond the threshold from  *)
(* the recorded one clears the firing cache only: a resolved list that is   *)
(* present is kept and the resolver does not run, the desire is kept.  A    *)
(* tick with the center of mass at or below the threshold keeps the         *)
(* recorded center of mass and every cache entry.                           *)
(***************************************************************************)
C16_ComClearsCacheOnly ==
    [][SteeringStep =>
         \A b \in bodies :
            Requests(b) =>
               /\ steering'[b].desired_force = steering[b].desired_force
               /\ steering'[b].desired_torque = steering[b].desired_torque
               /\ steering[b].engines # None =>
                     /\ steering'[b].engines = steering[b].engines
                     /\ ~out'[b].resolved
               /\ IF DistanceSquared(steering[b].last_seen_com, world_com[b]) > ComThresholdSq
                  THEN /\ out'[b].com_cleared
                       /\ out'[b].solved # None
                       /\ \A e \in steering'[b].firings_cache :
                             e.key = out'[b].key[1] /\ e.firing = out'[b].firing[1]
                  ELSE /\ ~out'[b].com_cleared
                       /\ steering'[b].last_seen_com = steering[b].last_seen_com
                       /\ steering[b].firings_cache \subseteq steering'[b].firings_cache]_vars

\* a tick that cleared the cache for drift and used the resolved list of an
\* earlier tick
C16_Witness ==
    \E b \in bodies :
       /\ out[b].com_cleared /\ ~out[b].resolved
       /\ steering[b].engines # None /\ steering[b].engines # Some(<< >>)
       /\ steering[b].last_seen_com = world_com[b]
       /\ \E r \in solve_log[b] : r.frame < frame - 1 /\ r.call.engines = steering[b].engines[1]

\* a tick with the center of mass exactly at the threshold distance from the
\* recorded one: served from the cache, the recorded center of mass kept
C16_WitnessAtThreshold ==
    \E b \in bodies :
       /\ pc = "update"
       /\ out[b].hit /\ ~out[b].com_cleared
       /\ DistanceSquared(steering[b].last_seen_com, world_com[b]) = ComThresholdSq

(***************************************************************************)
(* C17  A tick of a body with zero desired force and torque does not run    *)
(* the drift test, the lookup or the force application: the firing cache,   *)
(* the recorded center of mass and the resolved list are exactly what they  *)
(* were, also when the center of mass is beyond the threshold at that tick. *)
(***************************************************************************)
C17_ZeroTickSkips ==
    [][SteeringStep =>
         \A b \in bodies :
            ~Requests(b) =>
               /\ ~out'[b].ran /\ ~out'[b].com_cleared /\ ~out'[b].hit /\ ~out'[b].resolved
               /\ out'[b].impulses = << >>
               /\ steering'[b].firings_cache = steering[b].firings_cache
               /\ steering'[b].last_seen_com = steering[b].last_seen_com
               /\ steering'[b].engines = steering[b].engines]_vars

\* a zero tick of a body with a resolved list and a cached vector, taken
\* with the center of mass beyond the threshold from the recorded one
C17_Witness ==
    \E b \in bodies :
       /\ Len(tick_log[b]) > 1
       /\ ~tick_log[b][Len(tick_log[b])].ran
       /\ DistanceSquared(steering[b].last_seen_com, tick_log[b][Len(tick_log[b])].com)
             > ComThresholdSq
       /\ steering[b].firings_cache # {}
       /\ steering[b].engines # None

(***************************************************************************)
(* C18  Once per key: on a tick with a desire the solver runs only if the   *)
(* key of the request is not stored (never stored, or cleared by an         *)
(* invalidation or by the drift handling of this tick).  When it runs it    *)
(* is given the exact desired force and torque of this request, this tick's *)
(* center of mass and the resolved list, and its result is stored under the *)
(* key.  When the key is stored the solver does not run, the stored vector  *)
(* is used and the cache is not written.                                    *)
(***************************************************************************)
C18_OncePerKey ==
    [][SteeringStep =>
         \A b \in bodies :
            Requests(b) =>
               LET key == QuantKey(steering[b].desired_force, steering[b].desired_torque)
                   kept == IF Displaced(b) THEN {} ELSE steering[b].firings_cache
                   stored == { e \in kept : e.key = key }
               IN  IF stored = {}
                   THEN /\ out'[b].solved =
                             Some([engines |-> steering'[b].engines[1],
                                   com |-> world_com[b],
                                   force |-> steering[b].desired_force,
                                   torque |-> steering[b].desired_torque])
                        /\ out'[b].firing[1] \in Solve(steering'[b].engines[1], world_com[b],
                                                       steering[b].desired_force,
                                                       steering[b].desired_torque)
                        /\ steering'[b].firings_cache =
                             kept \cup { [key |-> key, firing |-> out'[b].firing[1]] }
                   ELSE /\ out'[b].solved = None
                        /\ solve_log'[b] = solve_log[b]
                        /\ \A e \in stored : out'[b].firing = Some(e.firing)
                        /\ steering'[b].firings_cache = steering[b].firings_cache]_vars

\* a request served with the vector solved for an earlier request of the
\* same bucket with other exact values, still the only entry of that key
C18_Witness ==
    \E b \in bodies : \E r \in solve_log[b] :
       /\ out[b].hit
       /\ r.key = out[b].key[1]
       /\ r.call.force # out[b].request[1].force
       /\ out[b].firing = Some(r.firing)
       /\ Cardinality({ e \in steering[b].firings_cache : e.key = r.key }) = 1
       /\ \A q \in solve_log[b] : q.key = r.key => q = r

(***************************************************************************)
(* C19  The recorded center of mass is an anchor.  It changes only on a     *)
(* tick of a body with a desire whose center of mass is beyond the          *)
(* threshold from it, to that center of mass, the cache being cleared on    *)
(* the same tick; and after every step each stored vector is the result of  *)
(* the latest solver call for its key, made with a center of mass within    *)
(* the threshold of the recorded one.                                       *)
(***************************************************************************)
\* the latest solver call of body b for a key
LatestSolve(b, key) ==
    CHOOSE r \in solve_log[b] :
       r.key = key /\ \A q \in solve_log[b] : q.key = key => q.frame <= r.frame

\* every stored vector was solved with a center of mass near the recorded one
Anchored(b) ==
    \A e \in steering[b].firings_cache :
       /\ \E r \in solve_log[b] : r.key = e.key
       /\ LatestSolve(b, e.key).firing = e.firing
       /\ DistanceSquared(LatestSolve(b, e.key).call.com, steering[b].last_seen_com)
             <= ComThresholdSq

C19_ComAnchor ==
    [][\A b \in bodies :
          /\ steering'[b].last_seen_com # steering[b].last_seen_com =>
                /\ SteeringStep /\ Requests(b) /\ Displaced(b)
                /\ steering'[b].last_seen_com = world_com[b]
                /\ out'[b].com_cleared
          /\ Anchored(b)']_vars

\* three ticks with a desire, the center of mass moving by no more than the
\* threshold between consecutive ticks and by more than it in total: the
\* second tick kept the anchor, the third one cleared the cache
C19_Witness ==
    \E b \in bodies :
       /\ Len(tick_log[b]) = 3
       /\ \A k \in 1..3 : tick_log[b][k].ran
       /\ DistanceSquared(tick_log[b][1].com, tick_log[b][2].com) <= ComThresholdSq
       /\ DistanceSquared(tick_log[b][2].com, tick_log[b][3].com) <= ComThresholdSq
       /\ tick_log[b][1].com # tick_log[b][2].com
       /\ DistanceSquared(tick_log[b][1].com, tick_log[b][3].com) > ComThresholdSq
       /\ out[b].com_cleared
       /\ steering[b].last_seen_com = tick_log[b][3].com
       /\ Anchored(b)

LogActivation(t, id) == t.firing[1][CHOOSE i \in 1..Len(t.keys) : t.keys[i] = id]

\* the events of a logged tick, as a set
LogEvents(t) == { t.events[i] : i \in 1..Len(t.events) }

\* the type of the last event of an identity before tick k, "none" if there
\* is none
RECURSIVE LastEventBefore(_, _, _)
LastEventBefore(b, k, id) ==
    IF k = 1 THEN "none"
    ELSE LET sent == { e \in LogEvents(tick_log[b][k - 1]) : e.engine = id }
         IN  IF sent = {} THEN LastEventBefore(b, k - 1, id)
             ELSE (CHOOSE e \in sent : TRUE).type

C21_FiringTracking ==
    \A b \in bodies :
       /\ Len(tick_log[b]) > 0 =>
             currently_firing[b] = LogActive(tick_log[b][Len(tick_log[b])])
       /\ \A k \in 1..Len(tick_log[b]) :
             LET t == tick_log[b][k]
                 now == LogActive(t)
                 before == ActiveBefore(b, k)
             IN  /\ LogEvents(t) =
                       { [type |-> "StartedFiring", engine |-> id,
                          amount |-> LogActivation(t, id)] : id \in now \ before }
                       \cup
                       { [type |-> "StoppedFiring", engine |-> id, amount |-> 0] :
                            id \in before \ now }
                 /\ Len(t.events) = Cardinality(LogEvents(t))
                 /\ \A e \in LogEvents(t) :
                       LastEventBefore(b, k, e.engine) =
                          IF e.type = "StartedFiring"
                          THEN (IF LastEventBefore(b, k, e.engine) = "none"
                                THEN "none" ELSE "StoppedFiring")
                          ELSE "StartedFiring"

\* an identity that started with its activation as the amount and stopped
\* on a later tick, leaving nothing recorded as firing
C21_Witness ==
    \E b \in bodies : \E id \in Identities :
       /\ Len(tick_log[b]) > 1
       /\ id \in LogActive(tick_log[b][1])
       /\ [type |-> "StartedFiring", engine |-> id,
           amount |-> LogActivation(tick_log[b][1], id)] \in LogEvents(tick_log[b][1])
       /\ LogActivation(tick_log[b][1], id) > 0
       /\ LastEventBefore(b, Len(tick_log[b]), id) = "StartedFiring"
       /\ [type |-> "StoppedFiring", engine |-> id, amount |-> 0]
             \in LogEvents(tick_log[b][Len(tick_log[b])])
       /\ currently_firing[b] = {}

(***************************************************************************)
(* C22  Asymmetric torque normalization: in every solver call of steering   *)
(* the torque target is desired_torque times the sum of the positive        *)
(* torque coefficients when desired_torque > 0 and times the sum of the     *)
(* magnitudes of the negative ones when desired_torque < 0, and the force   *)
(* target is desired_force times the sum of the max_thrust values.          *)
(***************************************************************************)
\* the sum of the positive entries, and of the magnitudes of the negative
PositiveSum(t) == SeqSum([i \in 1..Len(t) |-> IF t[i] > 0 THEN t[i] ELSE 0])
NegativeSum(t) == SeqSum([i \in 1..Len(t) |-> IF t[i] < 0 THEN -t[i] ELSE 0])

C22_AsymmetricTargets ==
    \A b \in bodies : \A r \in solve_log[b] :
       LET c == r.call
           p == Problem(c.engines, c.com, c.force, c.torque)
           t == Torques(c.engines, c.com)
       IN  /\ c.torque > 0 => p.desired_torque = c.torque * PositiveSum(t) * ActSteps
           /\ c.torque < 0 => p.desired_torque = c.torque * NegativeSum(t) * ActSteps
           /\ p.desire_x = 10 * c.force[1] * TotalThrust(c.engines) * ActSteps
           /\ p.desire_y = 10 * c.force[2] * TotalThrust(c.engines) * ActSteps

(***************************************************************************)
(* C25  Rounding before caching: every activation the solver of steering    *)
(* returned and every activation stored in a firing cache is an integer     *)
(* multiple of 0.01.                                                        *)
(***************************************************************************)
\* an activation (a numerator over ActSteps) is a whole number of hundredths
IsHundredth(a) == (100 * a) % ActSteps = 0

C25_RoundedBeforeCaching ==
    \A b \in bodies :
       /\ \A e \in steering[b].firings_cache :
             \A i \in 1..Len(e.firing) : IsHundredth(e.firing[i])
       /\ \A r \in solve_log[b] :
             \A i \in 1..Len(r.firing) : IsHundredth(r.firing[i])

(***************************************************************************)
(* C23: calculate_firing called with desired force (0,0) and desired        *)
(* torque 0 returns the vector of zeros with one entry per engine of the    *)
(* slice; called with an empty slice it returns the empty vector, without   *)
(* panicking, whatever the desired force and torque are.                    *)
(***************************************************************************)
FiringReturned == calc.op = "calculate_firing" /\ calc.done

C23_SolverEdgeCases ==
    FiringReturned =>
       /\ calc.engines = << >> => calc.result = Some(<< >>)
       /\ (calc.force = <<0, 0>> /\ calc.torque = 0) =>
             calc.result = Some([i \in 1..Len(calc.engines) |-> 0])

\* a zero request on two opposed engines, whose equal activations cancel,
\* has been answered
C23_Witness ==
    /\ FiringReturned
    /\ calc.force = <<0, 0>> /\ calc.torque = 0
    /\ calc.engines = << OptCatalogue[3], OptCatalogue[4] >>
    /\ calc.result = Some(<<0, 0>>)

\* a non-zero request on the empty slice has been answered
C23_WitnessEmpty ==
    /\ FiringReturned
    /\ calc.engines = << >>
    /\ calc.force # <<0, 0>> /\ calc.torque # 0
    /\ calc.result = Some(<< >>)

(***************************************************************************)
(* C24: estimate_acceleration returns as linear acceleration inverse_mass   *)
(* times the sum of the thrust vectors (thrust_vector * max_thrust *        *)
(* firing_amount * engine_scale) of the engines with firing_amount > 0, and *)
(* as angular acceleration inverse_moment_of_inertia_sqrt squared times the *)
(* sum of the cross products of (position - center of mass) with those      *)
(* thrust vectors, the sign of the cross product unchanged; it changes      *)
(* nothing but its result.                                                  *)
(***************************************************************************)
EstimateReturned == calc.op = "estimate_acceleration" /\ calc.done

\* the engines the loop pairs with a firing amount
Paired(c) == 1..Min(Len(c.engines), Len(c.firing))

\* the thrust vector of engine i of the call c
ThrustOf(c, i) == VScale(c.engines[i][2], c.engines[i][3] * c.firing[i] * c.engine_scale)

\* the sums over the engines that fire: thrust vector components and cross
\* products
ThrustSumX(c) == SeqSum([i \in Paired(c) |-> IF c.firing[i] > 0 THEN ThrustOf(c, i)[1] ELSE 0])
ThrustSumY(c) == SeqSum([i \in Paired(c) |-> IF c.firing[i] > 0 THEN ThrustOf(c, i)[2] ELSE 0])
CrossSum(c) ==
    SeqSum([i \in Paired(c) |->
              IF c.firing[i] > 0
              THEN CrossZ(VSub(c.engines[i][1], c.com), ThrustOf(c, i)) ELSE 0])

\* the linear part of the claim
C24_LinearAcceleration ==
    EstimateReturned =>
       calc.result[1].acceleration =
          << calc.inverse_mass * ThrustSumX(calc),
             calc.inverse_mass * ThrustSumY(calc) >>

\* the angular part with the sign the code gives it
C24_AngularNegated ==
    EstimateReturned =>
       calc.result[1].angular_acceleration =
          -(calc.inv_moi_sqrt * calc.inv_moi_sqrt * CrossSum(calc))

\* the function changes no control state and no cache
C24_Pure ==
    [][EstimateAcceleration =>
         UNCHANGED <<bodies, engine, changed, steering, world_com, out, solve_log,
                     currently_firing, event_keys, events, tick_log>>]_vars

C24_EstimateAcceleration ==
    EstimateReturned =>
       /\ calc.result[1].acceleration =
             << calc.inverse_mass * ThrustSumX(calc),
                calc.inverse_mass * ThrustSumY(calc) >>
       /\ calc.result[1].angular_acceleration =
             calc.inv_moi_sqrt * calc.inv_moi_sqrt * CrossSum(calc)

(***************************************************************************)
(* C26: the problem calculate_firing builds is feasible whatever the        *)
(* engines, the center of mass and the desired force and torque are: all    *)
(* activations 0, with every error variable at the absolute value of its    *)
(* target, satisfies the six constraints and the bounds; and a call that    *)
(* has returned has returned a vector.                                      *)
(***************************************************************************)
ZeroAssignmentFeasible(c) ==
    LET p == OptProblem(c.engines, c.com, c.force, c.torque)
    IN  Satisfies(p, [i \in 1..Len(c.engines) |-> 0],
                  Abs(p.desired_torque), Abs(p.desire_x), Abs(p.desire_y),
                  DesireVarValue)

C26_AlwaysFeasible ==
    calc.op = "calculate_firing" =>
       /\ ZeroAssignmentFeasible(calc)
       /\ calc.done => calc.result # None

\* a call with two engines and non-zero torque and force targets has returned
C26_Witness ==
    /\ FiringReturned
    /\ Len(calc.engines) >= 2
    /\ OptDesiredTorque(calc.engines, calc.com, calc.torque) # 0
    /\ calc.force # <<0, 0>>
    /\ ZeroAssignmentFeasible(calc)
    /\ calc.result # None

====
